---- MODULE Spec2Model ----
(***************************************************************************)
(* rluaterm: a host process embedding a Lua engine (src/src/main.rs).      *)
(* Two parts are modelled:                                                 *)
(*   - main: library loading, mode selection, file mode and the REPL,      *)
(*     with the http closures a script line can call (Spec);               *)
(*   - the closures load_memory_library builds, driven by script calls on  *)
(*     a process heap (SpecMemory).  main never calls load_memory_library, *)
(*     so under Spec the global `memory` stays nil.                        *)
(* SpecRegistry runs the load_* functions repeatedly on one engine.        *)
(***************************************************************************)
EXTENDS Integers, Sequences, FiniteSets, TLC

VARIABLES
    pc,         \* position of main: see PcValues
    exit,       \* how the process ended: "running", "ok", "err", "exit1", "panic"
    args,       \* the command line after argv[0]: "none", "lua", "other"
    file,       \* the script file named by args[1] (file mode)
    globals,    \* the engine's global namespace: name -> set of function names ({} is nil)
    headers,    \* the Lua table http.headers: set of <<key, value>>
    requests,   \* the requests sent so far, each the set of headers attached to it
    stdin,      \* the input lines not yet read
    eofReads,   \* prompts answered by end-of-input, modulo MaxEofReads + 1
    engine,     \* the sources submitted to the engine, in order
    sink,       \* the banner and what reached the logger, in order (prompts left out)
    last,       \* the last chunk the REPL gave the engine, the network's answer, the result
    runners,    \* the tokio runtimes (#[tokio::main]) alive
    heap,       \* the process heap: address -> block
    ret,        \* what the last call of a memory closure did
    issued,     \* the handles the allocate closures returned, in order
    owned       \* handle -> the value the script last stored, "unset", or "none"
                \* once free was called on it (until reissued)

vars == <<pc, exit, args, file, globals, headers, requests, stdin, eofReads,
          engine, sink, last, runners, heap, ret, issued, owned>>

mainVars == <<pc, exit, args, file, globals, headers, requests, stdin, eofReads,
              engine, sink, last, runners>>
memVars == <<heap, ret, issued, owned>>

----------------------------------------------------------------------------
(* Bounds *)

MaxInput == 3        \* longest stdin, in lines
MaxEofReads == 2     \* prompts modelled after end-of-input
MaxAddr == 2         \* heap addresses 1..MaxAddr
MaxVal == 1          \* stored bit patterns 0..MaxVal
MaxIssued == 3       \* allocations made by one script

----------------------------------------------------------------------------
(* The module tables the load_* functions build *)

LogLib == {"info", "warn", "error"}
ColorLib == {"red", "green", "yellow", "blue", "magenta", "cyan", "white",
             "black", "bold", "italic", "underline", "reverse"}
HttpLib == {"headers", "get", "json", "set_header"}
MemoryLib == {"alloc", "free", "read", "write",
              "allocate_int", "read_int", "write_int",
              "allocate_float", "read_float", "write_float",
              "allocate_string", "read_string", "write_string"}

GlobalNames == {"log", "color", "http", "memory", "main"}

NoGlobals == [n \in GlobalNames |-> {}]

\* table.set(key, value): the entry for key is replaced
TableSet(t, k, v) == {e \in t : e[1] # k} \cup {<<k, v>>}

\* globals().set that adds the module's functions to the table already there
GlobalsSet_Merge(g, name, module) == [g EXCEPT ![name] = g[name] \cup module]

\* lua_ctx.globals().set(name, module)
GlobalsSet(g, name, module) == [g EXCEPT ![name] = module]

\* a script's `mod.fn(...)` finds a function to call
Resolves(g, mod, fn) == fn \in g[mod]

----------------------------------------------------------------------------
(* The HTTP exchange: what reqwest::get(url) can come back with *)

Responses ==
    { r \in [sent : BOOLEAN, status : {200, 404},
             ctype : {"none", "text/plain", "application/json",
                      "application/json; charset=utf-8"},
             body : {"flat_json", "bad_json", "read_fail"}] :
        \/ r.sent
        \/ (r.status = 200 /\ r.ctype = "none" /\ r.body = "read_fail") }

is_success(status) == status >= 200 /\ status < 300

status_to_string(status) == IF status = 200 THEN "200 OK" ELSE "404 Not Found"

\* to_str().unwrap().contains("application/json")
contains_json(ctype) ==
    ctype \in {"application/json", "application/json; charset=utf-8"}

\* decode: whether the body was handed to the JSON decoder
Ok(data) == [kind |-> "Ok", data |-> data, decode |-> FALSE]
Err(what) == [kind |-> "Err", data |-> {<<"reqwest", what>>}, decode |-> FALSE]
Panicked == [kind |-> "Panic", data |-> {}, decode |-> FALSE]

\* resp.json::<HashMap<String, String>>().await?
JsonDecode(body) ==
    IF body = "flat_json"
    THEN [kind |-> "Ok", data |-> {<<"k", "v">>}, decode |-> TRUE]
    ELSE [kind |-> "Err", data |-> {<<"reqwest", "DecodeFailed">>}, decode |-> TRUE]

\* get_http with the status stored before the success test
get_http_StatusFirst(resp) ==
    IF ~resp.sent THEN Err("RequestFailed")
    ELSE IF ~is_success(resp.status)
         THEN Ok({<<"status", status_to_string(resp.status)>>,
                  <<"error", status_to_string(resp.status)>>})
    ELSE IF resp.body = "read_fail" THEN Err("DecodeFailed")
    ELSE Ok({<<"status", status_to_string(resp.status)>>, <<"text", resp.body>>})

\* get_http: Result<HashMap<String, String>>; the map is a set of <<key, value>>
get_http(resp) ==
    IF ~resp.sent THEN Err("RequestFailed")
    ELSE IF ~is_success(resp.status)
         THEN Ok({<<"error", status_to_string(resp.status)>>})
    ELSE IF resp.body = "read_fail" THEN Err("DecodeFailed")
    ELSE Ok({<<"status", status_to_string(resp.status)>>, <<"text", resp.body>>})

\* get_http_json without the content-type test
get_http_json_NoTypeTest(resp) ==
    IF ~resp.sent THEN Err("RequestFailed")
    ELSE IF ~is_success(resp.status)
         THEN Ok({<<"error", status_to_string(resp.status)>>})
    ELSE JsonDecode(resp.body)

\* get_http_json: headers().get("content-type").unwrap() panics on a missing header
get_http_json(resp) ==
    IF ~resp.sent THEN Err("RequestFailed")
    ELSE IF ~is_success(resp.status)
         THEN Ok({<<"error", status_to_string(resp.status)>>})
    ELSE IF resp.ctype = "none" THEN Panicked
    ELSE IF ~contains_json(resp.ctype)
         THEN Ok({<<"error", "Response is not valid json">>})
    ELSE JsonDecode(resp.body)

\* the closures of http.get / http.json: response.unwrap() panics on Err
\* result seen by the engine: a table, or a panic unwinding through it
HttpClosure(response) ==
    IF response.kind = "Ok"
    THEN [res |-> "ok", table |-> response.data, decode |-> response.decode]
    ELSE [res |-> "panic", table |-> {}, decode |-> response.decode]

http_get(resp) == HttpClosure(get_http(resp))
http_json(resp) == HttpClosure(get_http_json(resp))

----------------------------------------------------------------------------
(* The engine: lua_ctx.load(code).exec() on the script sources modelled *)

Farewell == "log.info('Exiting Lua interpreter')"

ScriptLines == {"log.info('a')", "error('x')", "log = nil",
                "http.get('u')", "http.json('u')",
                "http.set_header('k','v')", "memory.allocate_int()"}

RawLines == ScriptLines \cup {"", "   ", "exit", " exit "}

\* input.trim()
trim(line) ==
    CASE line = "   " -> ""
      [] line = " exit " -> "exit"
      [] OTHER -> line

\* logger::info as log.info calls it, for the chunks modelled
LogInfo(code) ==
    IF code = Farewell THEN "info: [LUA] Exiting Lua interpreter" ELSE "info: [LUA] a"

\* what a chunk that calls no http closure gets back from one
NoReply == [res |-> "none", table |-> {}, decode |-> FALSE]

Outcome(res, g, h, emits, reqs, reply) ==
    [res |-> res, globals |-> g, headers |-> h, emits |-> emits, reqs |-> reqs,
     reply |-> reply]

\* exec of one chunk with globals g and http.headers h; resp is the answer the
\* network gives if the chunk makes a request.  res: "ok", "err" (a Lua error
\* returned by exec) or "panic" (a Rust panic resumed out of exec).
Exec(code, g, h, resp) ==
    CASE code \in {"log.info('a')", Farewell} ->
           IF Resolves(g, "log", "info")
           THEN Outcome("ok", g, h, <<LogInfo(code)>>, <<>>, NoReply)
           ELSE Outcome("err", g, h, <<>>, <<>>, NoReply)
      [] code = "error('x')" -> Outcome("err", g, h, <<>>, <<>>, NoReply)
      [] code = "log = nil" ->
           Outcome("ok", GlobalsSet(g, "log", {}), h, <<>>, <<>>, NoReply)
      [] code = "http.get('u')" ->
           IF Resolves(g, "http", "get")
           THEN Outcome(http_get(resp).res, g, h, <<>>, <<{}>>, http_get(resp))
           ELSE Outcome("err", g, h, <<>>, <<>>, NoReply)
      [] code = "http.json('u')" ->
           IF Resolves(g, "http", "json")
           THEN Outcome(http_json(resp).res, g, h, <<>>, <<{}>>, http_json(resp))
           ELSE Outcome("err", g, h, <<>>, <<>>, NoReply)
      [] code = "http.set_header('k','v')" ->
           IF Resolves(g, "http", "set_header") /\ Resolves(g, "http", "headers")
           THEN Outcome("ok", g, TableSet(h, "k", "v"), <<>>, <<>>, NoReply)
           ELSE Outcome("err", g, h, <<>>, <<>>, NoReply)
      [] code = "memory.allocate_int()" ->
           IF Resolves(g, "memory", "allocate_int")
           THEN Outcome("ok", g, h, <<>>, <<>>, NoReply)
           ELSE Outcome("err", g, h, <<>>, <<>>, NoReply)

----------------------------------------------------------------------------
(* File mode: the script files modelled.  The top level logs 'a', binds the *)
(* global main when binds_main, then fails when top = "err"; main logs 'b'  *)
(* and then fails when main = "err".                                        *)

Files == [exists : BOOLEAN, top : {"ok", "err"}, text_main : BOOLEAN,
          binds_main : BOOLEAN, main : {"ok", "err"}]

NoFile == [exists |-> FALSE, top |-> "ok", text_main |-> FALSE,
           binds_main |-> FALSE, main |-> "ok"]

\* lua_ctx.load(&contents).exec()
ExecFile(f, g, h) ==
    Outcome(f.top,
            IF f.binds_main THEN GlobalsSet(g, "main", {"call"}) ELSE g,
            h, <<"info: [LUA] a">>, <<>>, NoReply)

\* lua_ctx.globals().get::<_, Function>("main")?.call::<_, ()>(())
\* res "nofn": the get fails and `?` returns the error out of the closure
CallMain(f, g, h) ==
    IF ~Resolves(g, "main", "call") THEN Outcome("nofn", g, h, <<>>, <<>>, NoReply)
    ELSE Outcome(f.main, g, h, <<"info: [LUA] b">>, <<>>, NoReply)

----------------------------------------------------------------------------
(* main *)

PcValues == {"start", "log_loaded", "color_loaded", "args", "entry", "tail",
             "repl", "http", "end", "lib"}

Addrs == 1..MaxAddr
Vals == 0..MaxVal

\* a block of the heap that no Box owns
FreeBlock == [live |-> FALSE, tag |-> "none", bits |-> 0]

NotHeld == [tag |-> "none", bits |-> 0, written |-> FALSE]

NoResponse == CHOOSE r \in Responses : ~r.sent

Init ==
    /\ pc = "start"
    /\ exit = "running"
    /\ args \in {"none", "lua", "other"}
    /\ IF args = "lua" THEN file \in Files ELSE file = NoFile
    /\ globals = NoGlobals
    /\ headers = {}
    /\ requests = <<>>
    /\ IF args = "none"
       THEN stdin \in UNION {[1..n -> RawLines] : n \in 0..MaxInput}
       ELSE stdin = <<>>
    /\ eofReads = 0
    /\ engine = <<>>
    /\ sink = <<>>
    /\ last = [code |-> "", resp |-> NoResponse, res |-> "none",
               table |-> {}, decode |-> FALSE]
    /\ runners = 0
    /\ heap = [a \in Addrs |-> FreeBlock]
    /\ ret = [op |-> "none", h |-> 0, kind |-> "none", val |-> 0, held |-> "none"]
    /\ issued = <<>>
    /\ owned = [a \in Addrs |-> NotHeld]

load_lua_log_library ==
    /\ pc = "start"
    /\ globals' = GlobalsSet(globals, "log", LogLib)
    /\ pc' = "log_loaded"
    /\ UNCHANGED <<exit, args, file, headers, requests, stdin, eofReads, engine, sink, last, runners>>
    /\ UNCHANGED memVars

load_color_library ==
    /\ pc = "log_loaded"
    /\ globals' = GlobalsSet(globals, "color", ColorLib)
    /\ pc' = "color_loaded"
    /\ UNCHANGED <<exit, args, file, headers, requests, stdin, eofReads, engine, sink, last, runners>>
    /\ UNCHANGED memVars

load_http_library ==
    /\ pc = "color_loaded"
    /\ headers' = TableSet(TableSet({}, "User-Agent", "Cumulus/1.0"),
                           "Accept", "application/json")
    /\ globals' = GlobalsSet(globals, "http", HttpLib)
    /\ pc' = "args"
    /\ UNCHANGED <<exit, args, file, requests, stdin, eofReads, engine, sink, last, runners>>
    /\ UNCHANGED memVars

\* MainOtherArg without the ends_with(".lua") test: the path is looked up
MainOtherArg_AsScript ==
    /\ pc = "args" /\ args = "other"
    /\ sink' = Append(sink, "error: File does not exist")
    /\ pc' = "end" /\ exit' = "exit1"
    /\ UNCHANGED <<args, file, globals, headers, requests, stdin, eofReads, engine,
                   last, runners>>
    /\ UNCHANGED memVars

\* args_length > 1, file_path does not end with ".lua"
MainOtherArg ==
    /\ pc = "args" /\ args = "other"
    /\ pc' = "tail"
    /\ UNCHANGED <<exit, args, file, globals, headers, requests, stdin, eofReads,
                   engine, sink, last, runners>>
    /\ UNCHANGED memVars

\* the path does not exist: logger::error, std::process::exit(1)
MainFileNotFound ==
    /\ pc = "args" /\ args = "lua" /\ ~file.exists
    /\ sink' = Append(sink, "error: File does not exist")
    /\ pc' = "end" /\ exit' = "exit1"
    /\ UNCHANGED <<args, file, globals, headers, requests, stdin, eofReads, engine, last, runners>>
    /\ UNCHANGED memVars

\* read the file, exec its top level, log a failure
MainFileTopLevel ==
    /\ pc = "args" /\ args = "lua" /\ file.exists
    /\ LET out == ExecFile(file, globals, headers) IN
         /\ engine' = Append(engine, "file")
         /\ globals' = out.globals
         /\ sink' = sink \o out.emits \o
                    (IF out.res = "err" THEN <<"error: Failed to load file">> ELSE <<>>)
    /\ pc' = "entry"
    /\ UNCHANGED <<exit, args, file, headers, requests, stdin, eofReads, last, runners>>
    /\ UNCHANGED memVars

\* contents.contains("function main"): get the global main and call it
MainFileEntryPoint ==
    /\ pc = "entry"
    /\ IF ~file.text_main
       THEN /\ pc' = "tail"
            /\ UNCHANGED <<exit, engine, sink>>
       ELSE LET out == CallMain(file, globals, headers) IN
            IF out.res = "nofn"
            THEN /\ pc' = "end" /\ exit' = "err"
                 /\ UNCHANGED <<engine, sink>>
            ELSE /\ engine' = Append(engine, "main()")
                 /\ sink' = sink \o out.emits \o
                      (IF out.res = "err"
                       THEN <<"error: Failed to run main function in file">>
                       ELSE <<>>)
                 /\ pc' = "tail"
                 /\ UNCHANGED exit
    /\ UNCHANGED <<args, file, globals, headers, requests, stdin, eofReads, last, runners>>
    /\ UNCHANGED memVars

\* MainReturn without the args_length == 1 test: the REPL follows file mode
MainReturn_IntoRepl ==
    /\ pc = "tail"
    /\ sink' = Append(sink, "banner")
    /\ pc' = "repl"
    /\ UNCHANGED <<exit, args, file, globals, headers, requests, stdin, eofReads,
                   engine, last, runners>>
    /\ UNCHANGED memVars

\* args_length == 1 is false after the first block: Ok(())
MainReturn ==
    /\ pc = "tail"
    /\ pc' = "end" /\ exit' = "ok"
    /\ UNCHANGED <<args, file, globals, headers, requests, stdin, eofReads, engine, sink, last, runners>>
    /\ UNCHANGED memVars

\* args_length == 1: print the banner, enter lua_interpret_loop
MainBanner ==
    /\ pc = "args" /\ args = "none"
    /\ sink' = Append(sink, "banner")
    /\ pc' = "repl"
    /\ UNCHANGED <<exit, args, file, globals, headers, requests, stdin, eofReads, engine, last, runners>>
    /\ UNCHANGED memVars

----------------------------------------------------------------------------
(* lua_interpret_loop: one action per way an iteration goes *)

\* read_line at end-of-input reads nothing (Ok(0)): the input is empty, continue.
\* Nothing but the prompt count changes, so the count is kept modulo its bound.
ReplEof ==
    /\ pc = "repl" /\ stdin = <<>>
    /\ eofReads' = (eofReads + 1) % (MaxEofReads + 1)
    /\ UNCHANGED <<pc, exit, args, file, globals, headers, requests, stdin, engine,
                   sink, last, runners>>
    /\ UNCHANGED memVars

\* input.is_empty(): continue
ReplBlank ==
    /\ pc = "repl" /\ stdin # <<>>
    /\ trim(Head(stdin)) = ""
    /\ stdin' = Tail(stdin)
    /\ UNCHANGED <<pc, exit, args, file, globals, headers, requests, eofReads, engine,
                   sink, last, runners>>
    /\ UNCHANGED memVars

\* input == "exit": exec the farewell chunk, `?` on its result, break
ReplExit ==
    /\ pc = "repl" /\ stdin # <<>>
    /\ trim(Head(stdin)) = "exit"
    /\ stdin' = Tail(stdin)
    /\ LET out == Exec(Farewell, globals, headers, NoResponse) IN
         /\ engine' = Append(engine, Farewell)
         /\ sink' = sink \o out.emits
         /\ exit' = IF out.res = "ok" THEN "ok" ELSE "err"
    /\ pc' = "end"
    /\ UNCHANGED <<args, file, globals, headers, requests, eofReads, last, runners>>
    /\ UNCHANGED memVars

\* the chunk calls http.get / http.json and the closure is there to call
CallsHttp(code, g) ==
    \/ code = "http.get('u')" /\ Resolves(g, "http", "get")
    \/ code = "http.json('u')" /\ Resolves(g, "http", "json")

\* lua_interpret(&lua, &input): exec the line, log its error, Ok(())
lua_interpret ==
    /\ pc = "repl" /\ stdin # <<>>
    /\ trim(Head(stdin)) \notin {"", "exit"}
    /\ ~CallsHttp(trim(Head(stdin)), globals)
    /\ stdin' = Tail(stdin)
    /\ LET out == Exec(trim(Head(stdin)), globals, headers, NoResponse) IN
         /\ engine' = Append(engine, trim(Head(stdin)))
         /\ last' = [code |-> trim(Head(stdin)), res |-> out.res, resp |-> NoResponse,
                     table |-> out.reply.table, decode |-> out.reply.decode]
         /\ globals' = out.globals
         /\ headers' = out.headers
         /\ sink' = sink \o out.emits \o
                    (IF out.res = "err" THEN <<"error: exec">> ELSE <<>>)
    /\ UNCHANGED <<pc, exit, args, file, requests, eofReads, runners>>
    /\ UNCHANGED memVars

\* lua_interpret on a line that calls http.get / http.json, up to the await:
\* #[tokio::main] builds a runtime and blocks on reqwest::get(url)
HttpCallEnter ==
    /\ pc = "repl" /\ stdin # <<>>
    /\ CallsHttp(trim(Head(stdin)), globals)
    /\ stdin' = Tail(stdin)
    /\ engine' = Append(engine, trim(Head(stdin)))
    /\ last' = [code |-> trim(Head(stdin)), res |-> "pending", resp |-> NoResponse,
                table |-> {}, decode |-> FALSE]
    /\ requests' = requests \o
                   Exec(trim(Head(stdin)), globals, headers, NoResponse).reqs
    /\ runners' = runners + 1
    /\ pc' = "http"
    /\ UNCHANGED <<exit, args, file, globals, headers, eofReads, sink>>
    /\ UNCHANGED memVars

\* HttpCallReturn with the runtime kept after the call
HttpCallReturn_KeepsRunner ==
    /\ pc = "http"
    /\ \E resp \in Responses :
         LET out == Exec(last.code, globals, headers, resp) IN
           /\ last' = [code |-> last.code, res |-> out.res, resp |-> resp,
                       table |-> out.reply.table, decode |-> out.reply.decode]
           /\ sink' = sink \o out.emits \o
                      (IF out.res = "err" THEN <<"error: exec">> ELSE <<>>)
           /\ IF out.res = "panic"
              THEN pc' = "end" /\ exit' = "panic"
              ELSE pc' = "repl" /\ UNCHANGED exit
    /\ UNCHANGED <<args, file, globals, headers, requests, stdin, eofReads, engine,
                   runners>>
    /\ UNCHANGED memVars

\* the exchange completes: the async fn returns (or panics), the runtime is
\* dropped, the closure unwraps the result, lua_interpret logs an error
HttpCallReturn ==
    /\ pc = "http"
    /\ \E resp \in Responses :
         LET out == Exec(last.code, globals, headers, resp) IN
           /\ last' = [code |-> last.code, res |-> out.res, resp |-> resp,
                       table |-> out.reply.table, decode |-> out.reply.decode]
           /\ sink' = sink \o out.emits \o
                      (IF out.res = "err" THEN <<"error: exec">> ELSE <<>>)
           /\ IF out.res = "panic"
              THEN pc' = "end" /\ exit' = "panic"
              ELSE pc' = "repl" /\ UNCHANGED exit
    /\ runners' = runners - 1
    /\ UNCHANGED <<args, file, globals, headers, requests, stdin, eofReads, engine>>
    /\ UNCHANGED memVars

Next ==
    \/ load_lua_log_library
    \/ load_color_library
    \/ load_http_library
    \/ MainOtherArg
    \/ MainFileNotFound
    \/ MainFileTopLevel
    \/ MainFileEntryPoint
    \/ MainReturn
    \/ MainBanner
    \/ ReplEof
    \/ ReplBlank
    \/ ReplExit
    \/ lua_interpret
    \/ HttpCallEnter
    \/ HttpCallReturn

Spec == Init /\ [][Next]_vars

\* the process is one sequential thread: it takes its next step whenever it has one
FairSpec == Spec /\ WF_vars(Next)

----------------------------------------------------------------------------
(* The memory library.  A handle is the address Box::into_raw returned, as  *)
(* i64.  Every closure but the allocate ones rebuilds an owning Box from    *)
(* the address with Box::from_raw and lets it drop, which frees the block.  *)
(* An access to a block no Box owns is undefined behaviour: the call comes  *)
(* back with any value, or the process dies (allocator abort / SIGSEGV).    *)

\* the state a script starts from once load_memory_library has run
InitMemory ==
    /\ Init
    /\ args = "none" /\ stdin = <<>>

load_memory_library ==
    /\ pc = "start"
    /\ globals' = GlobalsSet(globals, "memory", MemoryLib)
    /\ pc' = "lib"
    /\ UNCHANGED <<exit, args, file, headers, requests, stdin, eofReads, engine, sink, last, runners>>
    /\ UNCHANGED memVars

\* [u8; 8], i64 and f64 are 8 plain bytes; a String is a (pointer, capacity, length)
SameLayout(t, u) == t = u \/ {t, u} \subseteq {"bytes", "int", "float"}

\* the outcomes of a call: defined, or what undefined behaviour can produce
CallKinds(defined) == IF defined THEN {"ok"} ELSE {"ok", "abort"}

\* Box::into_raw(Box::new(<zero of tag>)) as i64: the allocator hands out any
\* block that is not in use, a block freed earlier included
BoxNew(op, tag) ==
    /\ pc = "lib" /\ exit = "running" /\ Resolves(globals, "memory", op)
    /\ Len(issued) < MaxIssued
    /\ \E a \in Addrs :
         /\ ~heap[a].live
         /\ heap' = [heap EXCEPT ![a] = [live |-> TRUE, tag |-> tag, bits |-> 0]]
         /\ ret' = [op |-> op, h |-> a, kind |-> "ok", val |-> 0, held |-> owned[a].tag]
         /\ issued' = Append(issued, a)
         /\ owned' = [owned EXCEPT ![a] = [tag |-> tag, bits |-> 0, written |-> FALSE]]
    /\ UNCHANGED mainVars

\* data = *Box::from_raw(pointer as *mut T); the Box drops at the end of the statement
BoxRead(op, tag, p) ==
    /\ pc = "lib" /\ exit = "running" /\ Resolves(globals, "memory", op)
    /\ LET defined == heap[p].live /\ SameLayout(heap[p].tag, tag) IN
       \E kind \in CallKinds(defined) :
       \E v \in (IF defined THEN {heap[p].bits} ELSE Vals) :
         /\ ret' = [op |-> op, h |-> p, kind |-> kind,
                    val |-> IF kind = "ok" THEN v ELSE 0, held |-> owned[p].tag]
         /\ heap' = [heap EXCEPT ![p] = FreeBlock]
         /\ IF kind = "abort"
            THEN pc' = "end" /\ exit' = "abort"
            ELSE UNCHANGED <<pc, exit>>
    /\ UNCHANGED <<issued, owned>>
    /\ UNCHANGED <<args, file, globals, headers, requests, stdin, eofReads, engine, sink, last, runners>>

\* *Box::from_raw(pointer as *mut T) = data; the Box drops at the end of the statement
BoxWrite(op, tag, p, v) ==
    /\ pc = "lib" /\ exit = "running" /\ Resolves(globals, "memory", op)
    /\ LET defined == heap[p].live /\ SameLayout(heap[p].tag, tag) IN
       \E kind \in CallKinds(defined) :
         /\ ret' = [op |-> op, h |-> p, kind |-> kind, val |-> v, held |-> owned[p].tag]
         /\ heap' = [heap EXCEPT ![p] = FreeBlock]
         /\ IF kind = "abort"
            THEN pc' = "end" /\ exit' = "abort"
            ELSE UNCHANGED <<pc, exit>>
    /\ owned' = IF owned[p].tag = tag
                THEN [owned EXCEPT ![p] = [tag |-> tag, bits |-> v, written |-> TRUE]]
                ELSE owned
    /\ UNCHANGED issued
    /\ UNCHANGED <<args, file, globals, headers, requests, stdin, eofReads, engine, sink, last, runners>>

\* let _ = Box::from_raw(pointer as *mut [u8; 8]);
BoxDrop(op, p) ==
    /\ pc = "lib" /\ exit = "running" /\ Resolves(globals, "memory", op)
    /\ \E kind \in CallKinds(heap[p].live) :
         /\ ret' = [op |-> op, h |-> p, kind |-> kind, val |-> 0, held |-> owned[p].tag]
         /\ heap' = [heap EXCEPT ![p] = FreeBlock]
         /\ IF kind = "abort"
            THEN pc' = "end" /\ exit' = "abort"
            ELSE UNCHANGED <<pc, exit>>
    /\ owned' = [owned EXCEPT ![p] = NotHeld]
    /\ UNCHANGED issued
    /\ UNCHANGED <<args, file, globals, headers, requests, stdin, eofReads, engine, sink, last, runners>>

alloc == BoxNew("alloc", "bytes")
free == \E p \in Addrs : BoxDrop("free", p)
read == \E p \in Addrs : BoxRead("read", "bytes", p)
write == \E p \in Addrs, v \in Vals : BoxWrite("write", "bytes", p, v)

allocate_int == BoxNew("allocate_int", "int")
read_int == \E p \in Addrs : BoxRead("read_int", "int", p)
write_int == \E p \in Addrs, v \in Vals : BoxWrite("write_int", "int", p, v)

allocate_float == BoxNew("allocate_float", "float")
read_float == \E p \in Addrs : BoxRead("read_float", "float", p)
write_float == \E p \in Addrs, v \in Vals : BoxWrite("write_float", "float", p, v)

allocate_string == BoxNew("allocate_string", "string")
read_string == \E p \in Addrs : BoxRead("read_string", "string", p)
write_string == \E p \in Addrs, v \in Vals : BoxWrite("write_string", "string", p, v)

NextMemory ==
    \/ load_memory_library
    \/ alloc \/ free \/ read \/ write
    \/ allocate_int \/ read_int \/ write_int
    \/ allocate_float \/ read_float \/ write_float
    \/ allocate_string \/ read_string \/ write_string

SpecMemory == InitMemory /\ [][NextMemory]_vars

----------------------------------------------------------------------------
(* Vocabulary of the properties *)

ReadOps == {"read", "read_int", "read_float", "read_string"}
WriteOps == {"write", "write_int", "write_float", "write_string"}

\* the slot type a read_* / write_* closure is for
TagOf(op) ==
    CASE op \in {"read", "write"} -> "bytes"
      [] op \in {"read_int", "write_int"} -> "int"
      [] op \in {"read_float", "write_float"} -> "float"
      [] op \in {"read_string", "write_string"} -> "string"
      [] OTHER -> "none"

WasIssued(h) == \E i \in 1..Len(issued) : issued[i] = h

Count(seq, x) == Cardinality({i \in 1..Len(seq) : seq[i] = x})

Modules == {"log", "color", "http", "memory"}

ModuleTable(m) ==
    CASE m = "log" -> LogLib
      [] m = "color" -> ColorLib
      [] m = "http" -> HttpLib
      [] m = "memory" -> MemoryLib

HttpLines == {"http.get('u')", "http.json('u')"}

\* the exchange failed: no response, a body that cannot be read or decoded,
\* or (json) a successful response without a content-type header
HttpFailed(code, resp) ==
    \/ ~resp.sent
    \/ /\ is_success(resp.status)
       /\ \/ code = "http.get('u')" /\ resp.body = "read_fail"
          \/ code = "http.json('u')" /\ resp.ctype = "none"
          \/ code = "http.json('u')" /\ resp.ctype = "application/json"
               /\ resp.body # "flat_json"

----------------------------------------------------------------------------
(* Properties of the memory library (SpecMemory) *)

\* C1: a read_T of a handle that was allocated as T and written with v, and
\* not freed since, returns v
C1_ReadReturnsWritten ==
    (ret.op \in ReadOps /\ owned[ret.h].written /\ owned[ret.h].tag = TagOf(ret.op))
        => (ret.kind = "ok" /\ ret.val = owned[ret.h].bits)

\* C2: the storage behind a handle an allocate call returned stays live until
\* free is called on that handle
C2_LiveUntilFreed ==
    \A a \in Addrs : owned[a].tag # "none" => heap[a].live

\* C3: a read_* or write_* of a handle that free was called on fails with
\* HandleNotFound
C3_FreedHandleNotFound ==
    (ret.op \in ReadOps \cup WriteOps /\ WasIssued(ret.h) /\ ret.held = "none")
        => ret.kind = "HandleNotFound"

\* C4: free of a handle that was never issued or is already freed fails with
\* HandleNotFound
C4_FreeAtMostOnce ==
    (ret.op = "free" /\ ret.held = "none") => ret.kind = "HandleNotFound"

\* C5: a read_U or write_U of a handle allocated as T # U and not freed fails
\* with TypeMismatch and leaves the slot as it was
C5_TypeMismatch ==
    (ret.op \in ReadOps \cup WriteOps /\ ret.held \notin {"none", TagOf(ret.op)})
        => /\ ret.kind = "TypeMismatch"
           /\ heap[ret.h].live /\ heap[ret.h].tag = ret.held

\* C6: no allocate call returns a handle that an earlier allocate call returned
C6_HandlesNeverReused ==
    \A i, j \in 1..Len(issued) : i # j => issued[i] # issued[j]

----------------------------------------------------------------------------
(* Properties of main and the REPL (Spec) *)

\* C7: when the first script source is submitted to the engine all four
\* capability modules are mounted, and no module is mounted after that
C7_ModulesMountedBeforeScripts ==
    [][ /\ (engine = <<>> /\ engine' # <<>>)
            => \A m \in Modules : globals[m] = ModuleTable(m)
        /\ engine # <<>>
            => \A m \in Modules : globals[m] = {} => globals'[m] = {} ]_vars

\* C8: a failed http.get / http.json exchange, once its call has returned,
\* comes back to the script as a script-visible error and the host does not
\* panic
C8_HttpFailuresScriptVisible ==
    (last.code \in HttpLines /\ last.res # "pending"
        /\ HttpFailed(last.code, last.resp))
        => (last.res = "err" /\ exit # "panic")

\* C9: in the REPL a blank line re-prompts without an engine invocation, and
\* `exit` submits the farewell, which is logged exactly once, and ends the loop
C9_ReplBlankAndExit ==
    [][ (pc = "repl" /\ stdin # <<>>) =>
          /\ trim(Head(stdin)) = "" => (engine' = engine /\ pc' = "repl")
          /\ trim(Head(stdin)) = "exit" =>
               /\ engine' = Append(engine, Farewell)
               /\ Count(sink', LogInfo(Farewell)) = Count(sink, LogInfo(Farewell)) + 1
               /\ pc' = "end" ]_vars

\* C10: in the REPL every line but blank and `exit` is submitted to the engine
\* once, a failed execution is reported and the loop goes on, and no script
\* execution error makes the REPL return an error to the host
C10_ReplIsolatesScriptErrors ==
    [][ /\ (pc = "repl" /\ stdin # <<>> /\ trim(Head(stdin)) \notin {"", "exit"}) =>
             /\ engine' = Append(engine, trim(Head(stdin)))
             /\ last'.res = "err" =>
                  (sink'[Len(sink')] = "error: exec" /\ pc' = "repl")
        /\ args = "none" => exit' # "err" ]_vars

\* C11: once the input is exhausted without an `exit` line, the REPL loop
\* eventually stops
C11_ReplEndsAtEof ==
    (pc = "repl" /\ stdin = <<>>) ~> (pc = "end")

\* C12: in file mode the top level is executed once and first; when the source
\* defines a callable main, main is invoked exactly once after it, whether or
\* not the top level failed, and the top-level log line precedes main's
C12_FilePhasesInOrder ==
    (args = "lua" /\ file.exists) =>
      /\ pc \in {"entry", "tail", "end"} =>
            (engine[1] = "file" /\ Count(engine, "file") = 1)
      /\ (pc \in {"tail", "end"} /\ file.binds_main) =>
            /\ engine = <<"file", "main()">>
            /\ \E i, j \in 1..Len(sink) :
                 i < j /\ sink[i] = "info: [LUA] a" /\ sink[j] = "info: [LUA] b"

\* C13: in file mode with an existing file the process ends successfully
\* whatever the script did, a failed top level is reported to the error sink,
\* and only a missing file ends the process with a non-zero status
C13_FileModeEndsOk ==
    (args = "lua" /\ pc = "end") =>
      /\ file.exists => exit = "ok"
      /\ (file.exists /\ file.top = "err") =>
            Count(sink, "error: Failed to load file") = 1
      /\ exit # "ok" => ~file.exists

\* the content-type values that indicate a JSON payload
JsonTypes == {"application/json", "application/json; charset=utf-8"}

\* the keys of a table returned to the script
Keys(table) == {e[1] : e \in table}

C15_HeadersAttached ==
    [][ /\ (last'.code = "http.set_header('k','v')" /\ last'.res = "ok")
             => <<"k", "v">> \in headers'
        /\ (<<"k", "v">> \in headers /\ Len(requests') > Len(requests))
             => headers \subseteq requests'[Len(requests')] ]_vars

\* C16: a table http.get returns has exactly the key error, holding the status
\* line, when the status is not 2xx, and exactly the keys status and text,
\* text holding the body, when it is 2xx
C16_GetTableShape ==
    (last.code = "http.get('u')" /\ last.res = "ok") =>
      IF is_success(last.resp.status)
      THEN /\ Keys(last.table) = {"status", "text"}
           /\ <<"text", last.resp.body>> \in last.table
           /\ Cardinality(last.table) = 2
      ELSE /\ Keys(last.table) = {"error"}
           /\ last.table = {<<"error", status_to_string(last.resp.status)>>}

C16_Witness ==
    /\ last.code = "http.get('u')" /\ last.res = "ok"
    /\ ~is_success(last.resp.status)
    /\ Keys(last.table) = {"error"}

\* C17: one mode at most runs and it is chosen by the arguments: no argument
\* prints the banner and runs the REPL, never file mode; a .lua argument runs
\* file mode, never the REPL; a .lua path that does not exist ends the process
\* with status 1 after the error report and before any source reaches the engine
C17_OneModeChosenAtStartup ==
    /\ Count(sink, "banner") <= 1
    /\ ~(Count(sink, "banner") > 0 /\ Count(engine, "file") > 0)
    /\ args = "none" =>
         /\ pc \notin {"entry", "tail"} /\ Count(engine, "file") = 0
         /\ pc \in {"repl", "http", "end"} => (sink # <<>> /\ sink[1] = "banner")
    /\ args = "lua" =>
         /\ pc \notin {"repl", "http"} /\ Count(sink, "banner") = 0
         /\ ~file.exists =>
              /\ engine = <<>>
              /\ pc \notin {"entry", "tail"}
              /\ pc = "end" =>
                   (exit = "exit1" /\ sink = <<"error: File does not exist">>)

C17_Witness ==
    /\ args = "lua" /\ ~file.exists
    /\ pc = "end" /\ exit = "exit1" /\ engine = <<>>

\* C20: with a first argument that does not end in .lua no mode is entered:
\* nothing reaches the engine, nothing is looked up or reported, and the
\* process ends successfully
C20_OtherArgRunsNothing ==
    args = "other" =>
      /\ engine = <<>> /\ sink = <<>>
      /\ pc \notin {"entry", "repl", "http"}
      /\ exit \in {"running", "ok"}
      /\ pc = "end" => exit = "ok"

C20_Witness ==
    args = "other" /\ pc = "end" /\ exit = "ok" /\ engine = <<>> /\ sink = <<>>

\* C19: at most one task runner is alive; a runner is created only when none
\* is, no source reaches the engine while one is alive, and the step that ends
\* the call tears it down
C19_OneRunnerPerCall ==
    [][ /\ runners <= 1 /\ runners' <= 1
        /\ runners' > runners => runners = 0
        /\ runners = 1 => (engine' = engine /\ runners' = 0) ]_vars

C19_Witness ==
    /\ runners = 1 /\ pc = "http"
    /\ Len(requests) = 2

----------------------------------------------------------------------------
(* The registry: the load_* functions run on one engine in any order and any *)
(* number of times, with script chunks in between that change the mounted    *)
(* tables.  main itself registers each name once.                            *)

InitRegistry ==
    /\ Init
    /\ args = "none" /\ stdin = <<>>

\* the field a chunk removes from a mounted table, per module
RemovedField(m) ==
    CASE m = "log" -> "info"
      [] m = "color" -> "red"
      [] m = "http" -> "get"
      [] m = "memory" -> "alloc"

\* load_lua_log_library / load_color_library / load_http_library /
\* load_memory_library: build the table, globals().set(name, table)
RegistryLoad ==
    /\ pc = "start"
    /\ \E m \in Modules :
         /\ globals' = GlobalsSet(globals, m, ModuleTable(m))
         /\ headers' = IF m = "http"
                       THEN TableSet(TableSet({}, "User-Agent", "Cumulus/1.0"),
                                     "Accept", "application/json")
                       ELSE headers
         /\ last' = [code |-> m, res |-> "registered", resp |-> NoResponse,
                     table |-> globals[m], decode |-> FALSE]
    /\ UNCHANGED <<pc, exit, args, file, requests, stdin, eofReads, engine, sink, runners>>
    /\ UNCHANGED memVars

\* a chunk `m.extra = function() end` or `m.f = nil` on a mounted table
ScriptSetsField ==
    /\ pc = "start"
    /\ \E m \in Modules :
         /\ globals[m] # {}
         /\ \/ globals' = [globals EXCEPT ![m] = globals[m] \cup {"extra"}]
            \/ globals' = [globals EXCEPT ![m] = globals[m] \ {RemovedField(m)}]
         /\ globals' # globals
         /\ last' = [code |-> m, res |-> "ok", resp |-> NoResponse,
                     table |-> {}, decode |-> FALSE]
    /\ UNCHANGED <<pc, exit, args, file, headers, requests, stdin, eofReads, engine,
                   sink, runners>>
    /\ UNCHANGED memVars

NextRegistry == RegistryLoad \/ ScriptSetsField

SpecRegistry == InitRegistry /\ [][NextRegistry]_vars

\* C18: after a module is registered under a name, the global of that name
\* holds exactly the functions of the module registered last, none of the
\* functions only the replaced table had
C18_RegisterReplaces ==
    last.res = "registered" =>
      /\ globals[last.code] = ModuleTable(last.code)
      /\ (last.table \ ModuleTable(last.code)) \cap globals[last.code] = {}

C18_Witness ==
    /\ last.res = "registered"
    /\ "extra" \in last.table
    /\ RemovedField(last.code) \notin last.table
    /\ globals[last.code] = ModuleTable(last.code)

====
